---- MODULE Spec2Model ----
(***************************************************************************)
(* Model of the crawl scheduler (enhanced_crawl_with_extraction) and of    *)
(* the page extractor (RobustExtractor) of seo-site-audit.                 *)
(*                                                                         *)
(* Strings are sequences of one-character strings, so that str.split,      *)
(* the `in` substring test, str.strip and len are computed as Python       *)
(* computes them.                                                          *)
(***************************************************************************)
EXTENDS Integers, Sequences, FiniteSets, TLC

(***************************************************************************)
(* Bounds of the model                                                     *)
(***************************************************************************)
MaxPagesBound == 3
MaxDelay == 2
MaxH1 == 2
MaxParagraphs == 2
MaxMetas == 2
MaxImages == 2
MaxLinks == 2

(***************************************************************************)
(* Program constants                                                       *)
(***************************************************************************)
ScanLimit == 30
ProfileValueCap == 10
GoodAltLen == 5
MinParagraph == 50
MaxParagraph == 500

(***************************************************************************)
(* String helpers (Python str semantics)                                   *)
(***************************************************************************)
IsSubstring(needle, hay) ==
    \E i \in 0..(Len(hay) - Len(needle)) : SubSeq(hay, i + 1, i + Len(needle)) = needle

StartsWith(s, prefix) ==
    Len(s) >= Len(prefix) /\ SubSeq(s, 1, Len(prefix)) = prefix

RECURSIVE split(_, _)
split(s, sep) ==
    IF \A i \in 1..Len(s) : s[i] # sep
    THEN <<s>>
    ELSE LET i == CHOOSE k \in 1..Len(s) :
                      s[k] = sep /\ \A j \in 1..(k - 1) : s[j] # sep
         IN  <<SubSeq(s, 1, i - 1)>> \o split(SubSeq(s, i + 1, Len(s)), sep)

RECURSIVE lstrip(_)
lstrip(s) == IF s # <<>> /\ Head(s) = " " THEN lstrip(Tail(s)) ELSE s

RECURSIVE rstrip(_)
rstrip(s) == IF s # <<>> /\ s[Len(s)] = " " THEN rstrip(SubSeq(s, 1, Len(s) - 1)) ELSE s

(* str.strip() *)
strip(s) == rstrip(lstrip(s))

(* Sequences over S of length at most n *)
SeqsUpTo(S, n) == UNION {[1..k -> S] : k \in 0..n}

(***************************************************************************)
(* The URLs and hrefs of the modelled web                                  *)
(***************************************************************************)
Scheme == <<"h", ":">>
Origin(host) == Scheme \o <<"/", "/">> \o host

HostA == <<"a">>
HostB == <<"b">>
HostWA == <<"w", "a">>

HrefX == <<"/", "x">>
HrefZ == <<"/", "z">>
HrefRoot == <<"/">>
HrefEmpty == <<>>
HrefQuote == <<"\"">>
AbsAX == Origin(HostA) \o <<"/", "x">>
AbsBY == Origin(HostB) \o <<"/", "y">>
AbsBA == Origin(HostB) \o <<"/", "a">>
AbsWA == Origin(HostWA) \o <<"/", "x">>

(* A page with more anchors than the harvest scans: ScanLimit times /x, then /z *)
LongPage == [i \in 1..(ScanLimit + 1) |-> IF i <= ScanLimit THEN HrefX ELSE HrefZ]

(* The page of the specification's scenario: a.com/x, b.com/y, /z *)
ScenarioPage == <<AbsAX, AbsBY, HrefZ>>

(* The anchor lists a rendered page may offer: none, a link to the root, the
   same link twice, an unresolvable href before a good one, an empty href
   before a third-party URL that carries the start host in its path, a
   sub-domain, a plain third-party URL, and the two pages above *)
AnchorLists ==
    {<<>>, <<HrefRoot>>, <<HrefX, HrefX>>, <<HrefQuote, HrefZ>>, <<HrefEmpty, AbsBA>>,
     <<AbsWA>>, <<AbsBY>>, LongPage, ScenarioPage}

StartUrls == {Origin(HostA)}

AbsAZ == Origin(HostA) \o HrefZ

(* The server redirects /z to /x *)
RedirectTargets(u) == IF u = AbsAZ THEN {AbsAX} ELSE {}

(***************************************************************************)
(* The browser's URL handling                                              *)
(***************************************************************************)
(* The host component of an absolute URL *)
HostOf(u) == split(u, "/")[3]

(* The serialisation of an absolute URL: an empty path becomes "/" *)
Normalise(u) == IF Len(split(u, "/")) = 3 THEN u \o <<"/">> ELSE u

(* new URL("{href}", "{url}").href evaluated in the page: a quote in the href
   breaks the script and the evaluation raises *)
Resolve(href, base) ==
    IF IsSubstring(<<"\"">>, href)
    THEN [ok |-> FALSE, href |-> <<>>]
    ELSE IF StartsWith(href, Scheme \o <<"/", "/">>)
    THEN [ok |-> TRUE, href |-> Normalise(href)]
    ELSE IF StartsWith(href, <<"/">>)
    THEN [ok |-> TRUE, href |-> Origin(HostOf(base)) \o href]
    ELSE [ok |-> TRUE, href |-> Normalise(base) \o href]

(* page.url after page.goto(url) succeeded *)
Landed(u) == {Normalise(u)} \cup RedirectTargets(u)

(***************************************************************************)
(* The rendered document, as the extractor's queries see it                *)
(***************************************************************************)
(* What one call on the page or on an element does: it raises, it returns
   None (an absent attribute), or it returns a value *)
Raises == [kind |-> "raise", v |-> <<>>]
None == [kind |-> "none", v |-> <<>>]
Val(x) == [kind |-> "val", v |-> x]

(* `x or ""` *)
OrEmpty(o) == IF o.kind = "val" THEN o.v ELSE <<>>

(* A text of n characters c *)
Text(c, n) == [i \in 1..n |-> c]

TitleCalls == {Raises, Val(<<>>), Val(<<"t">>)}
OgTitleCalls == {Raises, None, Val(<<>>), Val(<<"o">>)}
TwitterTitleCalls == {Raises, None, Val(<<>>), Val(<<"w">>)}
LargeTextCalls == {Raises, Val(<<>>), Val(<< <<"L">> >>)}

(* locator(sel).all(): whether the query raises, and the matched elements, each
   the outcome of its inner_text() *)
Query(raises, els) == [raises |-> raises, els |-> els]

H1Texts == {Raises, Val(<<>>), Val(<<" ">>), Val(<<" ", "H">>)}
H1Queries == {Query(r, e) : r \in BOOLEAN, e \in SeqsUpTo(H1Texts, MaxH1)}

LowerHeadingQueries ==
    {Query(TRUE, <<>>), Query(FALSE, <<>>), Query(FALSE, <<Val(<<"S">>), Val(<<"S", "S">>)>>)}

VisualCalls == {Raises, Val(<< <<"V">> >>)}

MetaDescriptionCalls == {Raises, None, Val(<<>>), Val(<<"m">>)}
OgDescriptionCalls == {Raises, None, Val(<<>>), Val(<<"o">>)}
TwitterDescriptionCalls == {Raises, None, Val(<<>>), Val(<<"w">>)}

ParagraphTexts ==
    {Raises,
     Val(Text("p", MinParagraph)),
     Val(Text("q", MinParagraph + 1)),
     Val(Text("r", MaxParagraph - 1)),
     Val(Text("s", MaxParagraph)),
     Val(<<" ">> \o Text("u", MinParagraph) \o <<" ">>)}
ParagraphQueries ==
    {Query(FALSE, e) : e \in SeqsUpTo(ParagraphTexts, MaxParagraphs)} \cup {Query(TRUE, <<>>)}

TitleDocs ==
    [kind : {"titles"}, title : TitleCalls, og_title : OgTitleCalls,
     twitter_title : TwitterTitleCalls, h1 : H1Queries, large_texts : LargeTextCalls]

DescriptionDocs ==
    [kind : {"descriptions"}, meta_description : MetaDescriptionCalls,
     og_description : OgDescriptionCalls, twitter_description : TwitterDescriptionCalls,
     p : ParagraphQueries]

HeadingDocs ==
    [kind : {"headings"}, h1 : H1Queries, h2 : LowerHeadingQueries,
     h3 : LowerHeadingQueries, h4 : LowerHeadingQueries, h5 : LowerHeadingQueries,
     h6 : LowerHeadingQueries, visual : VisualCalls]

(***************************************************************************)
(* extraction_profiles.PROFILES: per profile key and field, the selectors.  *)
(* A field's selectors are a list, a dict (ecommerce images) or a bool      *)
(* (general basic_content)                                                  *)
(***************************************************************************)
Selectors(list) == [type |-> "list", sels |-> list]
SelectorDict == [type |-> "dict", sels |-> <<>>]
SelectorFlag == [type |-> "bool", sels |-> <<>>]

PROFILES ==
    [ecommerce |->
        [price |-> Selectors(<<"[class*=\"price\"]", "[id*=\"price\"]",
                               "[data-testid*=\"price\"]", ".product-price",
                               "span[itemprop=\"price\"]">>),
         product_name |-> Selectors(<<"h1[class*=\"product\"]", "[itemprop=\"name\"]",
                                      ".product-title">>),
         sku |-> Selectors(<<"[class*=\"sku\"]", "[data-sku]", "span[itemprop=\"sku\"]">>),
         availability |-> Selectors(<<"[class*=\"stock\"]", "[itemprop=\"availability\"]",
                                      ".availability">>),
         reviews |-> Selectors(<<"[class*=\"review\"]", "[itemprop=\"ratingValue\"]",
                                 ".rating">>),
         images |-> SelectorDict],
     b2b |->
        [cta_buttons |-> Selectors(<<"a[href*=\"contact\"]", "a[href*=\"demo\"]",
                                     "button[class*=\"cta\"]", ".btn-primary">>),
         forms |-> Selectors(<<"form[class*=\"contact\"]", "form[class*=\"lead\"]",
                               "input[type=\"email\"]">>),
         case_studies |-> Selectors(<<"[class*=\"case-study\"]", "[class*=\"testimonial\"]",
                                      ".customer-story">>),
         features |-> Selectors(<<"[class*=\"feature\"]", ".benefits li",
                                  "[class*=\"capability\"]">>),
         pricing |-> Selectors(<<"[class*=\"price\"]", "[class*=\"plan\"]",
                                 ".pricing-tier">>)],
     blog_content |->
        [article_body |-> Selectors(<<"article", "[class*=\"content\"]", ".post-content",
                                      "main">>),
         author |-> Selectors(<<"[class*=\"author\"]", "[rel=\"author\"]",
                                "span[itemprop=\"author\"]">>),
         publish_date |-> Selectors(<<"time[datetime]", "[class*=\"date\"]",
                                      "meta[property=\"article:published_time\"]">>),
         categories |-> Selectors(<<"[class*=\"category\"]", "[class*=\"tag\"]",
                                    ".taxonomy">>),
         reading_time |-> Selectors(<<"[class*=\"reading-time\"]",
                                      "[class*=\"read-time\"]">>)],
     local_business |->
        [business_name |-> Selectors(<<"h1", "[itemprop=\"name\"]", ".business-name">>),
         address |-> Selectors(<<"[class*=\"address\"]", "[itemprop=\"address\"]",
                                 ".location">>),
         phone |-> Selectors(<<"a[href^=\"tel:\"]", "[class*=\"phone\"]",
                               "[itemprop=\"telephone\"]">>),
         hours |-> Selectors(<<"[class*=\"hours\"]", "[itemprop=\"openingHours\"]",
                               ".business-hours">>),
         services |-> Selectors(<<"[class*=\"service\"]", "ul.services li", ".offerings">>)],
     general |->
        [basic_content |-> SelectorFlag]]

(* the registered profile keys *)
ProfileKeys == DOMAIN PROFILES

(* a key that no profile is registered under *)
UnknownKey == "restaurant"

(* the most selectors any field of any profile has *)
MaxSelectors ==
    LET lens == UNION {{Len(PROFILES[k][f].sels) : f \in DOMAIN PROFILES[k]} : k \in ProfileKeys}
    IN  CHOOSE n \in lens : \A m \in lens : m <= n

(* twelve different one-character texts *)
Glyphs == <<"1", "2", "3", "4", "5", "6", "7", "8", "9", "A", "B", "C">>
Glyph(i) == <<Glyphs[i]>>

(* What a selector of a profile field may match: the query raises; nothing;
   a text, the same text padded, a second text and a blank; six elements;
   six other elements; an element whose inner_text() raises between two *)
SelectorAnswers ==
    {Query(TRUE, <<>>),
     Query(FALSE, <<>>),
     Query(FALSE, <<Val(Glyph(1)), Val(<<" ">> \o Glyph(1) \o <<" ">>), Val(Glyph(2)), Val(<<" ">>)>>),
     Query(FALSE, [i \in 1..6 |-> Val(Glyph(i))]),
     Query(FALSE, [i \in 1..6 |-> Val(Glyph(i + 6))]),
     Query(FALSE, <<Val(Glyph(3)), Raises, Val(Glyph(4))>>)}

(* the page answers the i-th selector of every field with answers[i] *)
ProfileDocs == [kind : {"profile"}, answers : [1..MaxSelectors -> SelectorAnswers]]

(* A meta element: what get_attribute answers for name, property, http-equiv
   and content *)
Meta(name, property, http_equiv, content) ==
    [name |-> name, property |-> property, http_equiv |-> http_equiv, content |-> content]

MetaElements ==
    {Meta(Val(<<"d">>), None, None, Val(<<"x">>)),        (* <meta name=d content=x> *)
     Meta(None, Val(<<"o">>), None, Val(<<"y">>)),        (* <meta property=o content=y> *)
     Meta(Val(<<>>), None, Val(<<"r">>), Val(<<"0">>)),   (* <meta name="" http-equiv=r content=0> *)
     Meta(Val(<<"d">>), None, None, Val(<<>>)),           (* <meta name=d content=""> *)
     Meta(Val(<<"d">>), None, None, None),                (* <meta name=d> *)
     Meta(None, None, None, Val(<<"u">>)),                (* <meta charset=...>: no name *)
     Meta(Raises, None, None, Val(<<"x">>)),              (* the element is gone *)
     Meta(Val(<<"k">>), None, None, Raises)}

MetaDocs == [kind : {"metadata"}, metas : {Query(r, e) : r \in BOOLEAN, e \in SeqsUpTo(MetaElements, MaxMetas)}]

(* What get_attribute('alt') answers for an img: no attribute, alt="", an alt
   of 4, 5 or 6 characters, or a raise (the element is gone) *)
AltCalls ==
    {None, Raises, Val(<<>>)} \cup {Val(Text("a", n)) : n \in (GoodAltLen - 1)..(GoodAltLen + 1)}

ImageDocs == [kind : {"images"}, imgs : {Query(r, e) : r \in BOOLEAN, e \in SeqsUpTo(AltCalls, MaxImages)}]

(* "http" in the alphabet of Scheme, and the rel token *)
Http == <<"h">>
Nofollow == <<"n", "o", "f", "o", "l", "l", "o", "w">>
HrefHash == <<"#">>
HrefFragment == <<"#", "s">>
HrefMail == <<"m", ":", "u">>

(* An a element: what get_attribute('href'), inner_text() and
   get_attribute('rel') answer *)
Link(href, text, rel) == [href |-> href, text |-> text, rel |-> rel]

LinkElements ==
    {Link(Val(HrefX), Val(<<"t">>), None),                           (* <a href=/x>t</a> *)
     Link(Val(AbsBY), Val(<<"t">>), Val(Nofollow)),                  (* third party, nofollow *)
     Link(Val(AbsAX), Val(<<" ">>), Val(<<>>)),                      (* own host, blank text *)
     Link(Val(HrefHash), Val(<<>>), None),                           (* <a href="#"></a> *)
     Link(Val(HrefFragment), Val(<<"t">>), Val(<<"x", " ">> \o Nofollow)),
     Link(Val(HrefMail), Val(<<"t">>), None),                        (* neither / nor http *)
     Link(Val(AbsBA), Val(<<"t">>), None),                           (* third party, own host in path *)
     Link(None, Val(<<>>), None),                                    (* <a name=top></a> *)
     Link(None, Val(<<"t">>), Val(Nofollow)),                        (* <a rel=nofollow>t</a> *)
     Link(Val(<<>>), Val(<<>>), Val(Nofollow)),                      (* <a href="" rel=nofollow></a> *)
     Link(Val(HrefX), Raises, None)}                                 (* the element is gone *)

LinkDocs ==
    [kind : {"links"}, url : {AbsAX},
     links : {Query(r, e) : r \in BOOLEAN, e \in SeqsUpTo(LinkElements, MaxLinks)}]

NoDoc == [kind |-> "none"]
NoRec == [kind |-> "none"]

(***************************************************************************)
(* RobustExtractor                                                         *)
(***************************************************************************)
NoTitle == <<"NO TITLE FOUND">>
NoDescription == <<"NO DESCRIPTION FOUND">>

(* mutant: the chain follows the order in which the dict declares the fields *)
best_title_declared_order(t) ==
    IF t.title_tag # <<>> THEN t.title_tag
    ELSE IF t.og_title # <<>> THEN t.og_title
    ELSE IF t.twitter_title # <<>> THEN t.twitter_title
    ELSE IF t.h1_as_title # <<>> THEN t.h1_as_title
    ELSE IF t.largest_text_as_title # <<>> THEN t.largest_text_as_title
    ELSE NoTitle

(* titles["best_title"] = a or b or ... or "NO TITLE FOUND" *)
best_title(t) ==
    IF t.title_tag # <<>> THEN t.title_tag
    ELSE IF t.og_title # <<>> THEN t.og_title
    ELSE IF t.h1_as_title # <<>> THEN t.h1_as_title
    ELSE IF t.twitter_title # <<>> THEN t.twitter_title
    ELSE IF t.largest_text_as_title # <<>> THEN t.largest_text_as_title
    ELSE NoTitle

(* h1s = locator('h1').all(); if h1s: h1s[0].inner_text().strip(), inside try *)
h1_as_title(q) ==
    IF q.raises \/ q.els = <<>> \/ q.els[1].kind = "raise"
    THEN <<>>
    ELSE strip(q.els[1].v)

(* large_texts = page.evaluate(...); if large_texts: large_texts[0], inside try *)
largest_text_as_title(c) ==
    IF c.kind = "val" /\ c.v # <<>> THEN c.v[1] ELSE <<>>

extract_titles(d) ==
    LET t == [title_tag |-> OrEmpty(d.title),
              og_title |-> OrEmpty(d.og_title),
              twitter_title |-> OrEmpty(d.twitter_title),
              h1_as_title |-> h1_as_title(d.h1),
              largest_text_as_title |-> largest_text_as_title(d.large_texts)]
    IN  [kind |-> "titles"] @@ t @@ [best_title |-> best_title(t)]

(* if len(text) > 50 and len(text) < 500 *)
ParagraphFits(text) == Len(text) > MinParagraph /\ Len(text) < MaxParagraph

(* for p in paragraphs: text = p.inner_text().strip(); the first that fits; a
   raise before it leaves the field empty *)
RECURSIVE first_paragraph_of(_)
first_paragraph_of(els) ==
    IF els = <<>> \/ Head(els).kind = "raise"
    THEN <<>>
    ELSE IF ParagraphFits(strip(Head(els).v))
    THEN strip(Head(els).v)
    ELSE first_paragraph_of(Tail(els))

first_paragraph(q) == IF q.raises THEN <<>> ELSE first_paragraph_of(q.els)

(* descriptions["best_description"] = a or b or ... or "NO DESCRIPTION FOUND" *)
best_description(t) ==
    IF t.meta_description # <<>> THEN t.meta_description
    ELSE IF t.og_description # <<>> THEN t.og_description
    ELSE IF t.first_paragraph # <<>> THEN t.first_paragraph
    ELSE IF t.twitter_description # <<>> THEN t.twitter_description
    ELSE NoDescription

extract_descriptions(d) ==
    LET t == [meta_description |-> OrEmpty(d.meta_description),
              og_description |-> OrEmpty(d.og_description),
              first_paragraph |-> first_paragraph(d.p),
              twitter_description |-> OrEmpty(d.twitter_description)]
    IN  [kind |-> "descriptions"] @@ t @@ [best_description |-> best_description(t)]

(* [h.inner_text().strip() for h in tags if h.inner_text().strip()], inside
   try: a raise of the query or of any element leaves the list empty *)
heading_tags(q) ==
    IF q.raises \/ \E i \in DOMAIN q.els : q.els[i].kind = "raise"
    THEN <<>>
    ELSE LET texts == [i \in DOMAIN q.els |-> strip(q.els[i].v)]
         IN  SelectSeq(texts, LAMBDA x : x # <<>>)

(* if len(h1_tags) == 0: NO_H1 elif len(h1_tags) > 1: MULTIPLE_H1 *)
heading_structure_issues(h1_tags) ==
    IF Len(h1_tags) = 0 THEN <<"NO_H1">>
    ELSE IF Len(h1_tags) > 1 THEN <<"MULTIPLE_H1">>
    ELSE <<>>

(* f"meta_{name}" *)
meta_key(name) == <<"m", "e", "t", "a", "_">> \o name

(* name = get_attribute('name') or get_attribute('property') or
   get_attribute('http-equiv'): the first truthy one, else the last *)
meta_name(m) ==
    IF m.name.kind = "raise" THEN Raises
    ELSE IF OrEmpty(m.name) # <<>> THEN m.name
    ELSE IF m.property.kind = "raise" THEN Raises
    ELSE IF OrEmpty(m.property) # <<>> THEN m.property
    ELSE m.http_equiv

(* meta_tags[key] = content *)
set_item(tags, key, content) ==
    [k \in DOMAIN tags \cup {key} |-> IF k = key THEN content ELSE tags[k]]

(* for meta in metas: ...; a raise leaves the loop with the tags set so far *)
RECURSIVE meta_loop(_, _)
meta_loop(metas, meta_tags) ==
    IF metas = <<>>
    THEN meta_tags
    ELSE LET name == meta_name(Head(metas))
             content == Head(metas).content
         IN  IF name.kind = "raise" \/ content.kind = "raise"
             THEN meta_tags
             ELSE meta_loop(Tail(metas),
                            IF OrEmpty(name) # <<>> /\ OrEmpty(content) # <<>>
                            THEN set_item(meta_tags, meta_key(name.v), content.v)
                            ELSE meta_tags)

(* _extract_metadata: the keys are the meta_<name> of the page's meta elements *)
extract_metadata(d) ==
    [kind |-> "metadata",
     data |-> IF d.metas.raises THEN <<>> ELSE meta_loop(d.metas.els, <<>>)]

(* "good" if (alt and len(alt) > 5) else ("empty" if alt == "" else "missing") *)
alt_quality(alt) ==
    IF alt.kind = "val" /\ alt.v # <<>> /\ Len(alt.v) > GoodAltLen THEN "good"
    ELSE IF alt.kind = "val" /\ alt.v = <<>> THEN "empty"
    ELSE "missing"

(* img_info: "alt": alt or "", "has_alt": alt is not None, "alt_quality" *)
img_info(alt) ==
    [alt |-> OrEmpty(alt), has_alt |-> alt.kind # "none", alt_quality |-> alt_quality(alt)]

(* for img in imgs: append img_info, then if alt is None / elif alt == "" /
   elif len(alt) > 5; a raise leaves the loop with what was tallied so far *)
RECURSIVE image_loop(_, _)
image_loop(imgs, images_data) ==
    IF imgs = <<>> \/ Head(imgs).kind = "raise"
    THEN images_data
    ELSE LET alt == Head(imgs)
             appended == [images_data EXCEPT !.images_details = Append(@, img_info(alt))]
         IN  image_loop(Tail(imgs),
                        IF alt.kind = "none"
                        THEN [appended EXCEPT !.images_without_alt = @ + 1]
                        ELSE IF alt.v = <<>>
                        THEN [appended EXCEPT !.images_with_empty_alt = @ + 1]
                        ELSE IF Len(alt.v) > GoodAltLen
                        THEN [appended EXCEPT !.images_with_good_alt = @ + 1]
                        ELSE appended)

(* _extract_images: the img part *)
extract_images(d) ==
    LET images_data == [kind |-> "images", total_images |-> 0, images_without_alt |-> 0,
                        images_with_empty_alt |-> 0, images_with_good_alt |-> 0,
                        images_details |-> <<>>]
    IN  IF d.imgs.raises
        THEN images_data
        ELSE image_loop(d.imgs.els, [images_data EXCEPT !.total_images = Len(d.imgs.els)])

(* the tallies of one a element with an href, added to links_data *)
tally_link(links_data, domain, href, text, rel) ==
    [links_data EXCEPT
        !.internal_links = IF StartsWith(href, <<"/">>) \/ IsSubstring(domain, href)
                           THEN @ + 1 ELSE @,
        !.external_links = IF ~(StartsWith(href, <<"/">>) \/ IsSubstring(domain, href))
                              /\ StartsWith(href, Http)
                           THEN @ + 1 ELSE @,
        !.broken_anchor_links = IF href = <<"#">> \/ StartsWith(href, <<"#">>) THEN @ + 1 ELSE @,
        !.links_without_text = IF text = <<>> THEN @ + 1 ELSE @,
        !.nofollow_links = IF IsSubstring(Nofollow, rel) THEN @ + 1 ELSE @]

(* for link in links: href, text = inner_text().strip(), rel = ... or "";
   if not href: continue; a raise leaves the loop with what was tallied so far *)
RECURSIVE link_loop(_, _, _)
link_loop(links, domain, links_data) ==
    IF links = <<>> \/ Head(links).href.kind = "raise" \/ Head(links).text.kind = "raise"
                    \/ Head(links).rel.kind = "raise"
    THEN links_data
    ELSE LET href == OrEmpty(Head(links).href)
             text == strip(Head(links).text.v)
             rel == OrEmpty(Head(links).rel)
         IN  link_loop(Tail(links), domain,
                       IF href = <<>>
                       THEN links_data
                       ELSE tally_link(links_data, domain, href, text, rel))

(* _extract_links; domain = urlparse(self.url).netloc *)
extract_links(d) ==
    LET links_data == [kind |-> "links", total_links |-> 0, internal_links |-> 0,
                       external_links |-> 0, broken_anchor_links |-> 0,
                       links_without_text |-> 0, nofollow_links |-> 0]
    IN  IF d.links.raises
        THEN links_data
        ELSE link_loop(d.links.els, HostOf(d.url),
                       [links_data EXCEPT !.total_links = Len(d.links.els)])

(* text in values *)
InList(values, text) == \E i \in DOMAIN values : values[i] = text

(* for el in elements: text = el.inner_text().strip(); if text and text not in
   values: values.append(text); a raise ends the selector *)
RECURSIVE collect_elements(_, _)
collect_elements(els, values) ==
    IF els = <<>> \/ Head(els).kind = "raise"
    THEN values
    ELSE LET text == strip(Head(els).v)
         IN  collect_elements(Tail(els),
                              IF text # <<>> /\ ~InList(values, text)
                              THEN Append(values, text)
                              ELSE values)

(* for selector in selectors: try ... except: continue *)
RECURSIVE collect_selectors(_, _, _, _)
collect_selectors(sels, i, answers, values) ==
    IF i > Len(sels)
    THEN values
    ELSE collect_selectors(sels, i + 1, answers,
                           IF answers[i].raises
                           THEN values
                           ELSE collect_elements(answers[i].els, values))

(* mutant: the list is not cut *)
cut_values_not(values) == values

(* values[:10] *)
cut_values(values) ==
    SubSeq(values, 1, IF Len(values) < ProfileValueCap THEN Len(values) ELSE ProfileValueCap)

(* the value stored for one field: a list for a selector list, {} for a dict *)
profile_field(selectors, answers) ==
    IF selectors.type = "list"
    THEN [type |-> "list", v |-> cut_values(collect_selectors(selectors.sels, 1, answers, <<>>))]
    ELSE [type |-> "dict", v |-> <<>>]

(* the fields that get a key: those whose selectors are a list or a dict *)
ProfileFields(key) == {f \in DOMAIN PROFILES[key] : PROFILES[key][f].type \in {"list", "dict"}}

(* _extract_profile_specific(profile_key): field name -> value; the key of the
   record is "profile_" + field *)
extract_profile_specific(key, d) ==
    IF key \notin ProfileKeys \/ key = "general"
    THEN [kind |-> "profile", data |-> [f \in {} |-> <<>>]]
    ELSE [kind |-> "profile",
          data |-> [f \in ProfileFields(key) |-> profile_field(PROFILES[key][f], d.answers)]]

extract_headings(d) ==
    [kind |-> "headings",
     h1_tags |-> heading_tags(d.h1),
     h2_tags |-> heading_tags(d.h2),
     h3_tags |-> heading_tags(d.h3),
     h4_tags |-> heading_tags(d.h4),
     h5_tags |-> heading_tags(d.h5),
     h6_tags |-> heading_tags(d.h6),
     visual_headings |-> OrEmpty(d.visual),
     heading_structure_issues |-> heading_structure_issues(heading_tags(d.h1))]

(***************************************************************************)
(* State of enhanced_crawl_with_extraction                                 *)
(***************************************************************************)
VARIABLES
    start_url, max_pages, delay_min, delay_max,  \* the arguments
    profile_key,                                 \* the argument naming the extraction profile
    results, visited, to_visit,                  \* the locals of the crawl
    url,                                         \* the dequeued URL
    pc,                                          \* position in the loop body
    reported,                                    \* status_text/progress_bar called in this iteration
    slept,                                       \* the delay slept in this iteration, 0 if none
    page_url,                                    \* page.url of the rendered page
    anchors,                                     \* the hrefs of page.locator('a[href]'), in document order
    last,                                        \* the step taken last
    doc,                                         \* the rendered document handed to the extractor
    rec                                          \* what the extractor returned for it

vars == <<start_url, max_pages, delay_min, delay_max, profile_key, results, visited, to_visit,
          url, pc, reported, slept, page_url, anchors, last, doc, rec>>

crawl == <<start_url, max_pages, delay_min, delay_max, profile_key, results, visited, to_visit,
           url, pc, reported, slept, page_url, anchors, last>>

extraction == <<doc, rec>>

job == <<start_url, max_pages, delay_min, delay_max, profile_key>>

NoUrl == <<>>

(* the locals at the start of the function, before the loop *)
CrawlStart ==
    /\ results = <<>>
    /\ visited = {}
    /\ to_visit = <<start_url>>
    /\ url = NoUrl
    /\ pc = "loop"
    /\ reported = FALSE
    /\ slept = 0
    /\ page_url = NoUrl
    /\ anchors = <<>>
    /\ last = "init"
    /\ doc = NoDoc
    /\ rec = NoRec

(* a crawl under the general profile; the profile plays no part in the loop
   but in the call of the extractor *)
Init ==
    /\ start_url \in StartUrls
    /\ max_pages \in 1..MaxPagesBound
    /\ delay_min \in 1..MaxDelay
    /\ delay_max \in 2..MaxDelay
    /\ delay_min <= delay_max
    /\ profile_key = "general"
    /\ CrawlStart

(* a crawl called with any profile key, registered or not *)
InitAnyProfile ==
    /\ start_url \in StartUrls
    /\ max_pages \in 1..MaxPagesBound
    /\ delay_min = 1
    /\ delay_max = 2
    /\ profile_key \in ProfileKeys \cup {UnknownKey}
    /\ CrawlStart

(* mutant: the budget test lets one page too many through *)
LoopGuardInclusive == to_visit # <<>> /\ Cardinality(visited) <= max_pages

(* mutant: the budget is not tested *)
LoopGuardNoBudget == to_visit # <<>>

(* while to_visit and len(visited) < max_pages *)
LoopGuard == to_visit # <<>> /\ Cardinality(visited) < max_pages

(* random.uniform(a, b) on whole seconds *)
Uniform(a, b) == IF a <= b THEN a..b ELSE b..a

(* start_url.split('/')[2] in full_url; a start URL without that segment raises *)
InScope(full_url) ==
    LET parts == split(start_url, "/")
    IN  Len(parts) >= 3 /\ IsSubstring(parts[3], full_url)

(* mutant: the visited test is missing *)
AlreadyVisitedNever(u) == FALSE

(* if url in visited *)
AlreadyVisited(u) == u \in visited

(* the body of `for link in links[:30]` over the hrefs in `links` *)
RECURSIVE harvest(_, _)
harvest(links, frontier) ==
    IF links = <<>>
    THEN frontier
    ELSE LET href == Head(links)
             full == Resolve(href, url)
         IN  IF href # <<>> /\ full.ok /\ InScope(full.href) /\ full.href \notin visited
             THEN harvest(Tail(links), Append(frontier, full.href))
             ELSE harvest(Tail(links), frontier)

(* links[:30] *)
Scanned(links) == SubSeq(links, 1, IF Len(links) < ScanLimit THEN Len(links) ELSE ScanLimit)

EndIteration ==
    /\ pc' = "loop"
    /\ url' = NoUrl
    /\ reported' = FALSE
    /\ slept' = 0
    /\ page_url' = NoUrl
    /\ anchors' = <<>>

(* url = to_visit.pop(0); the URL is new *)
Dequeue ==
    /\ pc = "loop"
    /\ LoopGuard
    /\ ~AlreadyVisited(Head(to_visit))
    /\ url' = Head(to_visit)
    /\ to_visit' = Tail(to_visit)
    /\ pc' = "report"
    /\ last' = "dequeue"
    /\ UNCHANGED <<job, extraction, results, visited, reported, slept, page_url, anchors>>

(* url = to_visit.pop(0); if url in visited: continue *)
SkipVisited ==
    /\ pc = "loop"
    /\ LoopGuard
    /\ AlreadyVisited(Head(to_visit))
    /\ to_visit' = Tail(to_visit)
    /\ last' = "skip"
    /\ UNCHANGED <<job, extraction, results, visited, url, pc, reported, slept, page_url, anchors>>

(* the loop condition fails: browser.close(); return results *)
Return ==
    /\ pc = "loop"
    /\ ~LoopGuard
    /\ pc' = "done"
    /\ last' = "return"
    /\ UNCHANGED <<job, extraction, results, visited, to_visit, url, reported, slept, page_url, anchors>>

(* status_text.text(...); progress_bar.progress(...) *)
Report ==
    /\ pc = "report"
    /\ reported' = TRUE
    /\ pc' = "sleep"
    /\ last' = "report"
    /\ UNCHANGED <<job, extraction, results, visited, to_visit, url, slept, page_url, anchors>>

(* mutant: no delay before the first fetch *)
SleepAfterFirst ==
    /\ pc = "sleep"
    /\ slept' \in (IF visited = {} THEN {0} ELSE Uniform(delay_min, delay_max))
    /\ pc' = "goto"
    /\ last' = "sleep"
    /\ UNCHANGED <<job, extraction, results, visited, to_visit, url, reported, page_url, anchors>>

(* time.sleep(random.uniform(delay_min, delay_max)) *)
Sleep ==
    /\ pc = "sleep"
    /\ slept' \in Uniform(delay_min, delay_max)
    /\ pc' = "goto"
    /\ last' = "sleep"
    /\ UNCHANGED <<job, extraction, results, visited, to_visit, url, reported, page_url, anchors>>

(* mutant: the URL is marked visited before the navigation *)
GotoFailMarksVisited ==
    /\ pc = "goto"
    /\ visited' = visited \cup {url}
    /\ EndIteration
    /\ last' = "goto_fail"
    /\ UNCHANGED <<job, extraction, results, to_visit>>

(* mutant: a URL whose render failed is put back on the frontier *)
GotoFailRetries ==
    /\ pc = "goto"
    /\ to_visit' = Append(to_visit, url)
    /\ EndIteration
    /\ last' = "goto_fail"
    /\ UNCHANGED <<job, extraction, results, visited>>

(* page.goto or the scroll raises: print the error and continue *)
GotoFail ==
    /\ pc = "goto"
    /\ EndIteration
    /\ last' = "goto_fail"
    /\ UNCHANGED <<job, extraction, results, visited, to_visit>>

(* page.goto and the scroll succeed; visited.add(url) *)
GotoOk ==
    /\ pc = "goto"
    /\ page_url' \in Landed(url)
    /\ anchors' \in AnchorLists
    /\ visited' = visited \cup {url}
    /\ pc' = "extract"
    /\ last' = "goto_ok"
    /\ UNCHANGED <<job, extraction, results, to_visit, url, reported, slept>>

(* mutant: the extraction raises and the outer handler continues *)
ExtractRaises ==
    /\ pc = "extract"
    /\ EndIteration
    /\ last' = "extract"
    /\ UNCHANGED <<job, extraction, results, visited, to_visit>>

(* data = RobustExtractor(page).extract_all_content(profile_key); results.append(data) *)
Extract ==
    /\ pc = "extract"
    /\ results' = Append(results, [url |-> page_url])
    /\ pc' = "harvest"
    /\ last' = "extract"
    /\ UNCHANGED <<job, extraction, visited, to_visit, url, reported, slept, page_url, anchors>>

(* the harvest loop runs to its end *)
HarvestOk ==
    /\ pc = "harvest"
    /\ to_visit' = harvest(Scanned(anchors), to_visit)
    /\ EndIteration
    /\ last' = "harvest_ok"
    /\ UNCHANGED <<job, extraction, results, visited>>

(* page.locator(...).all() raises, or a link.get_attribute raises after n links:
   the outer handler prints the error and continues *)
HarvestFail ==
    /\ pc = "harvest"
    /\ \E n \in 0..(Len(Scanned(anchors)) - 1) :
           to_visit' = harvest(SubSeq(anchors, 1, n), to_visit)
    /\ EndIteration
    /\ last' = "harvest_fail"
    /\ UNCHANGED <<job, extraction, results, visited>>

Next ==
    \/ Dequeue
    \/ SkipVisited
    \/ Return
    \/ Report
    \/ Sleep
    \/ GotoFail
    \/ GotoOk
    \/ Extract
    \/ HarvestOk
    \/ HarvestFail

Spec == Init /\ [][Next]_vars

SpecAnyProfile == InitAnyProfile /\ [][Next]_vars

(***************************************************************************)
(* The extractor on one rendered document: the crawl stands at its         *)
(* extraction step and the sub-extractors run on the page                  *)
(***************************************************************************)
InitExtract ==
    /\ start_url \in StartUrls
    /\ max_pages = 1
    /\ delay_min = 1
    /\ delay_max = 2
    /\ results = <<>>
    /\ visited = {start_url}
    /\ to_visit = <<>>
    /\ url = start_url
    /\ pc = "extract"
    /\ reported = TRUE
    /\ slept = 1
    /\ page_url = Normalise(start_url)
    /\ anchors = <<>>
    /\ last = "goto_ok"
    /\ doc \in TitleDocs \cup DescriptionDocs \cup HeadingDocs \cup ProfileDocs
                \cup MetaDocs \cup ImageDocs \cup LinkDocs
    /\ profile_key \in (IF doc.kind = "profile"
                        THEN ProfileKeys \cup {UnknownKey}
                        ELSE {"general"})
    /\ rec = NoRec

ExtractTitles ==
    /\ rec = NoRec
    /\ doc.kind = "titles"
    /\ rec' = extract_titles(doc)
    /\ UNCHANGED <<crawl, doc>>

ExtractDescriptions ==
    /\ rec = NoRec
    /\ doc.kind = "descriptions"
    /\ rec' = extract_descriptions(doc)
    /\ UNCHANGED <<crawl, doc>>

ExtractHeadings ==
    /\ rec = NoRec
    /\ doc.kind = "headings"
    /\ rec' = extract_headings(doc)
    /\ UNCHANGED <<crawl, doc>>

ExtractMetadata ==
    /\ rec = NoRec
    /\ doc.kind = "metadata"
    /\ rec' = extract_metadata(doc)
    /\ UNCHANGED <<crawl, doc>>

ExtractImages ==
    /\ rec = NoRec
    /\ doc.kind = "images"
    /\ rec' = extract_images(doc)
    /\ UNCHANGED <<crawl, doc>>

ExtractLinks ==
    /\ rec = NoRec
    /\ doc.kind = "links"
    /\ rec' = extract_links(doc)
    /\ UNCHANGED <<crawl, doc>>

ExtractProfileSpecific ==
    /\ rec = NoRec
    /\ doc.kind = "profile"
    /\ rec' = extract_profile_specific(profile_key, doc)
    /\ UNCHANGED <<crawl, doc>>

NextExtract ==
    \/ ExtractTitles
    \/ ExtractDescriptions
    \/ ExtractHeadings
    \/ ExtractProfileSpecific
    \/ ExtractMetadata
    \/ ExtractImages
    \/ ExtractLinks

SpecExtract == InitExtract /\ [][NextExtract]_vars

(***************************************************************************)
(* Claims about the crawl scheduler                                        *)
(***************************************************************************)
IterationSteps == {"report", "sleep", "goto"}

(* C1: no PageRecord.url appears twice in the result list. *)
C1_NoDuplicateRecordUrl ==
    \A i, j \in DOMAIN results : i # j => results[i].url # results[j].url

(* the host of u equals the start URL's host or contains it as a substring *)
HostMatches(u) == IsSubstring(HostOf(start_url), HostOf(u))

(* C2: every URL in the frontier has a host that equals or contains the start
   URL's host, and no URL of another host is passed to the renderer. *)
C2_DomainScoped ==
    /\ \A i \in DOMAIN to_visit : HostMatches(to_visit[i])
    /\ pc \in IterationSteps => HostMatches(url)

(* C3: at every state the number of PageRecords and the size of the visited
   set are at most max_pages. *)
C3_WithinBudget ==
    /\ Len(results) <= max_pages
    /\ Cardinality(visited) <= max_pages

(* the budget is used up although more links than one page's scan are pending *)
C3_Witness ==
    /\ pc = "done"
    /\ max_pages >= 2
    /\ Len(results) = max_pages
    /\ Len(to_visit) >= ScanLimit

(* C4: a failed render leaves visited and results unchanged, adds no record,
   does not mark the URL visited and goes on with the next frontier entry; a
   run in which every render fails returns an empty result list. *)
C4_RenderFailureSkips ==
    /\ [][(pc = "goto" /\ pc' # "extract")
            => /\ last' = "goto_fail"
               /\ url \notin visited'
               /\ visited' = visited
               /\ results' = results
               /\ to_visit' = to_visit
               /\ pc' = "loop"]_vars
    /\ [](pc = "done" /\ visited = {} => results = <<>> /\ to_visit = <<>>)

(* a render has just failed after another one succeeded, and the loop goes on *)
C4_Witness ==
    /\ last = "goto_fail"
    /\ pc = "loop"
    /\ visited # {}
    /\ Len(results) = Cardinality(visited)
    /\ to_visit # <<>>

(* C5: a dequeued URL that is already visited is dropped without report,
   delay or render; a URL is marked visited only when it was not, so at most
   once; the visited set only grows. *)
C5_SkipVisitedOnce ==
    /\ [][(pc = "loop" /\ to_visit # <<>> /\ Cardinality(visited) < max_pages
             /\ Head(to_visit) \in visited)
            => /\ last' = "skip"
               /\ pc' = "loop"
               /\ to_visit' = Tail(to_visit)
               /\ ~reported' /\ slept' = 0 /\ page_url' = NoUrl
               /\ visited' = visited /\ results' = results]_vars
    /\ [][visited \subseteq visited'
            /\ (visited' # visited =>
                  url \notin visited /\ visited' = visited \cup {url} /\ last' = "goto_ok")]_vars
    /\ [](pc \in IterationSteps => url \notin visited)

(* a URL that was enqueued twice has been visited once and its second entry
   has just been dropped *)
C5_Witness ==
    /\ last = "skip"
    /\ \E i \in DOMAIN results : results[i].url = AbsAX
    /\ AbsAX \in visited
    /\ Cardinality(visited) < max_pages

(* C6: every render attempt is immediately preceded, in its iteration, by a
   status/progress report and then a delay from [delay_min, delay_max]. *)
C6_DelayBeforeEveryFetch ==
    /\ [](pc = "goto" => reported /\ slept \in delay_min..delay_max /\ last = "sleep")
    /\ [][last' \in {"goto_ok", "goto_fail"}
            => last = "sleep" /\ reported /\ slept \in delay_min..delay_max]_vars
    /\ [][last' = "sleep" => last = "report" /\ reported]_vars
    /\ [][last' = "report" => last = "dequeue"]_vars

(* the second successful fetch of a run has had its report and its delay *)
C6_Witness ==
    /\ last = "goto_ok"
    /\ Cardinality(visited) = 2
    /\ reported
    /\ slept \in delay_min..delay_max

(* C7: the crawl returns exactly when the frontier is empty or the visited
   count has reached max_pages, nothing is rendered once the count is reached,
   and with max_pages = 1 a start page that renders yields exactly one record
   and leaves the pending entries unvisited. *)
C7_Termination ==
    /\ [](pc = "done" => to_visit = <<>> \/ Cardinality(visited) = max_pages)
    /\ [](pc \in IterationSteps => Cardinality(visited) < max_pages)
    /\ [][pc = "loop" =>
            (pc' = "done" <=> (to_visit = <<>> \/ Cardinality(visited) = max_pages))]_vars
    /\ [](pc = "done" /\ max_pages = 1 /\ visited # {}
            => /\ Len(results) = 1
               /\ visited = {start_url}
               /\ \A i \in DOMAIN to_visit : to_visit[i] \notin visited)

(* max_pages = 1, the start page rendered and offered at least 10 links *)
C7_Witness ==
    /\ pc = "done"
    /\ max_pages = 1
    /\ Len(results) = 1
    /\ Len(to_visit) >= 10

(* what the claim expects of a harvest: of the scanned anchors, the resolved
   URLs that are not visited and whose host matches the start URL's host *)
RECURSIVE C8_Expected(_)
C8_Expected(links) ==
    IF links = <<>>
    THEN <<>>
    ELSE LET full == Resolve(Head(links), url)
             keep == /\ Head(links) # <<>>
                     /\ full.ok
                     /\ HostMatches(full.href)
                     /\ full.href \notin visited
         IN  (IF keep THEN <<full.href>> ELSE <<>>) \o C8_Expected(Tail(links))

(* C8: a harvest appends to the frontier exactly the resolved URLs, among the
   first 30 anchors, that are not visited and whose host matches the start
   URL's host; an unresolvable link is dropped alone. *)
C8_HarvestExact ==
    [][(pc = "harvest" /\ last' = "harvest_ok")
         => to_visit' = to_visit \o C8_Expected(Scanned(anchors))]_vars

(***************************************************************************)
(* Claims about the page extractor                                         *)
(***************************************************************************)
(* best is the output of the first strategy of the chain whose output is not
   empty, and the sentinel if there is none *)
FirstNonEmpty(outs, best, sentinel) ==
    LET won == {i \in DOMAIN outs : outs[i] # <<>>}
    IN  IF won = {}
        THEN best = sentinel
        ELSE best = outs[CHOOSE i \in won : \A j \in won : i <= j]

(* the record's field is the value the call returned, and empty if the call
   raised or returned None *)
Recorded(call, field) ==
    IF call.kind = "val" THEN field = call.v ELSE field = <<>>

(* the first paragraph whose stripped text has a length in (50, 500), unless
   the query or a paragraph before it raises *)
FirstFittingParagraph(q, field) ==
    LET fits == {i \in DOMAIN q.els :
                    /\ q.els[i].kind = "val"
                    /\ Len(strip(q.els[i].v)) > MinParagraph
                    /\ Len(strip(q.els[i].v)) < MaxParagraph}
        first == CHOOSE i \in fits : \A j \in fits : i <= j
    IN  IF ~q.raises /\ fits # {} /\ \A j \in 1..(first - 1) : q.els[j].kind # "raise"
        THEN field = strip(q.els[first].v)
        ELSE field = <<>>

(* C9: in the title and the description chain the resolved value is the
   output of the first strategy, in the declared order, whose output is not
   empty; the record holds every strategy's output, which tells the winner;
   a strategy that raises counts as empty; with all empty the value is the
   sentinel. *)
C9_FirstNonEmptyWins ==
    /\ rec.kind = "titles" =>
         /\ Recorded(doc.title, rec.title_tag)
         /\ Recorded(doc.og_title, rec.og_title)
         /\ Recorded(doc.twitter_title, rec.twitter_title)
         /\ (doc.h1.raises \/ doc.h1.els = <<>> => rec.h1_as_title = <<>>)
         /\ (~doc.h1.raises /\ doc.h1.els # <<>> =>
                Recorded(IF doc.h1.els[1].kind = "val"
                         THEN Val(strip(doc.h1.els[1].v)) ELSE Raises,
                         rec.h1_as_title))
         /\ (doc.large_texts.kind = "raise" => rec.largest_text_as_title = <<>>)
         /\ FirstNonEmpty(<<rec.title_tag, rec.og_title, rec.h1_as_title,
                            rec.twitter_title, rec.largest_text_as_title>>,
                          rec.best_title, NoTitle)
    /\ rec.kind = "descriptions" =>
         /\ Recorded(doc.meta_description, rec.meta_description)
         /\ Recorded(doc.og_description, rec.og_description)
         /\ Recorded(doc.twitter_description, rec.twitter_description)
         /\ FirstFittingParagraph(doc.p, rec.first_paragraph)
         /\ FirstNonEmpty(<<rec.meta_description, rec.og_description,
                            rec.first_paragraph, rec.twitter_description>>,
                          rec.best_description, NoDescription)

(* the title call raised, og:title is absent, and both the first h1 and
   twitter:title have a text: the h1 wins *)
C9_Witness ==
    /\ rec.kind = "titles"
    /\ doc.title.kind = "raise"
    /\ doc.og_title.kind = "none"
    /\ rec.h1_as_title = <<"H">>
    /\ rec.twitter_title = <<"w">>
    /\ rec.best_title = <<"H">>

Has(seq, x) == \E i \in DOMAIN seq : seq[i] = x

(* C10: heading_structure_issues holds NO_H1 iff the document has no h1
   element, MULTIPLE_H1 iff it has more than one, and never both. *)
C10_HeadingIssues ==
    rec.kind = "headings" =>
        LET n == Len(doc.h1.els)
            issues == rec.heading_structure_issues
        IN  /\ Has(issues, "NO_H1") <=> n = 0
            /\ Has(issues, "MULTIPLE_H1") <=> n > 1
            /\ ~(Has(issues, "NO_H1") /\ Has(issues, "MULTIPLE_H1"))

(***************************************************************************)
(* Claims about the profile registry and the profile fields                *)
(***************************************************************************)
(* C11: a crawl started with an unregistered profile key fails before any
   network activity: no page is rendered, no record is produced, and the run
   does not complete as if the key were valid. *)
C11_UnknownProfileRejected ==
    profile_key \notin ProfileKeys =>
        /\ last \notin {"goto_ok", "goto_fail"}
        /\ pc \notin {"extract", "harvest", "done"}
        /\ visited = {}
        /\ results = <<>>

(* the elements of a query whose text is read: those before the first one
   whose inner_text() raises *)
ElementsRead(els) ==
    LET stop == {i \in DOMAIN els : els[i].kind = "raise"}
    IN  IF stop = {} THEN els
        ELSE SubSeq(els, 1, (CHOOSE i \in stop : \A j \in stop : i <= j) - 1)

(* <<i, j>>: the j-th element matched by the i-th selector has a non-blank text *)
Matches(sels, answers) ==
    {p \in (1..Len(sels)) \X (1..6) :
        /\ ~answers[p[1]].raises
        /\ p[2] \in DOMAIN ElementsRead(answers[p[1]].els)
        /\ strip(answers[p[1]].els[p[2]].v) # <<>>}

MatchText(answers, p) == strip(answers[p[1]].els[p[2]].v)

Before(p, q) == p[1] < q[1] \/ (p[1] = q[1] /\ p[2] < q[2])

(* v is the texts seen, each once, in first-seen order, cut to ten: the k-th
   entry is new, and is the text of a match before which every match has a
   text among the first k-1 entries *)
DedupFirstSeenCut(v, sels, answers) ==
    LET matches == Matches(sels, answers)
        seen == {MatchText(answers, p) : p \in matches}
    IN  /\ Len(v) <= 10
        /\ Len(v) = (IF Cardinality(seen) < 10 THEN Cardinality(seen) ELSE 10)
        /\ \A k \in DOMAIN v :
              /\ \A j \in 1..(k - 1) : v[j] # v[k]
              /\ \E p \in matches :
                    /\ MatchText(answers, p) = v[k]
                    /\ \A q \in matches :
                          Before(q, p) => \E j \in 1..(k - 1) : v[j] = MatchText(answers, q)

TextsSeen(sels, answers) == {MatchText(answers, p) : p \in Matches(sels, answers)}

(* C12 as stated: under a non-general profile the value of every profile field
   is a list of at most 10 texts without duplicates, in first-seen order over
   all the selectors of the field. *)
C12_EveryFieldIsAList ==
    (rec.kind = "profile" /\ profile_key \in ProfileKeys \ {"general"}) =>
        \A f \in DOMAIN PROFILES[profile_key] :
            /\ f \in DOMAIN rec.data
            /\ rec.data[f].type = "list"
            /\ DedupFirstSeenCut(rec.data[f].v, PROFILES[profile_key][f].sels, doc.answers)

(* C12 amended: under a non-general profile the value of every profile field
   whose selectors are a list is a list of at most 10 texts without duplicates,
   in first-seen order over all the selectors of the field; a field whose
   selectors are a mapping has an empty mapping as its value. *)
C12_ListFieldsDedupCapped ==
    (rec.kind = "profile" /\ profile_key \in ProfileKeys \ {"general"}) =>
        \A f \in DOMAIN PROFILES[profile_key] :
            /\ f \in DOMAIN rec.data
            /\ PROFILES[profile_key][f].type = "list" =>
                  /\ rec.data[f].type = "list"
                  /\ DedupFirstSeenCut(rec.data[f].v, PROFILES[profile_key][f].sels, doc.answers)
            /\ PROFILES[profile_key][f].type = "dict" =>
                  /\ rec.data[f].type = "dict"
                  /\ rec.data[f].v = <<>>

(* twelve texts were seen for price, some more than once, and ten were kept *)
C12_Witness ==
    /\ rec.kind = "profile"
    /\ profile_key = "ecommerce"
    /\ Len(rec.data.price.v) = 10
    /\ Cardinality(TextsSeen(PROFILES.ecommerce.price.sels, doc.answers)) = 12
    /\ Cardinality(Matches(PROFILES.ecommerce.price.sels, doc.answers)) > 12
    /\ rec.data.images.type = "dict"

(* C16: every text in the list of a field is the text of one of the first 5
   elements matched by one of the field's selectors. *)
C16_FiveElementsPerSelector ==
    (rec.kind = "profile" /\ profile_key \in ProfileKeys \ {"general"}) =>
        \A f \in DOMAIN rec.data :
            rec.data[f].type = "list" =>
                \A a \in DOMAIN rec.data[f].v :
                    \E p \in Matches(PROFILES[profile_key][f].sels, doc.answers) :
                        /\ p[2] <= 5
                        /\ MatchText(doc.answers, p) = rec.data[f].v[a]

(* the page without any meta element *)
NoMetaDoc == [kind |-> "metadata", metas |-> Query(FALSE, <<>>)]

(* C13: the record of any page has exactly the keys of the record of any other
   page under the same profile; so the keys extracted from a page are those
   extracted from the page that has no meta element. *)
C13_SameKeysOnEveryPage ==
    rec.kind = "metadata" => DOMAIN rec.data = DOMAIN extract_metadata(NoMetaDoc).data

(* how many images are classified q *)
Classified(details, q) == Cardinality({i \in DOMAIN details : details[i].alt_quality = q})

(* C14: an image is "good" iff its alt is present and longer than 5 characters,
   "empty" iff its alt is present and of length 0, "missing" iff its alt is
   absent; images_with_empty_alt counts the images classified "empty" and
   images_without_alt those classified "missing". *)
C14_AltClassification ==
    rec.kind = "images" =>
        /\ \A i \in DOMAIN rec.images_details :
              LET alt == doc.imgs.els[i]
                  quality == rec.images_details[i].alt_quality
              IN  /\ quality = "good" <=> (alt.kind = "val" /\ Len(alt.v) > 5)
                  /\ quality = "empty" <=> (alt.kind = "val" /\ Len(alt.v) = 0)
                  /\ quality = "missing" <=> alt.kind = "none"
        /\ rec.images_with_empty_alt = Classified(rec.images_details, "empty")
        /\ rec.images_without_alt = Classified(rec.images_details, "missing")

(* the a elements of the page that total_links counts *)
Anchors == IF doc.links.raises THEN <<>> ELSE doc.links.els

HrefOf(a) == OrEmpty(a.href)

IsInternal(a) == StartsWith(HrefOf(a), <<"/">>) \/ IsSubstring(HostOf(doc.url), HrefOf(a))

IsExternal(a) == StartsWith(HrefOf(a), Http) /\ ~IsSubstring(HostOf(doc.url), HrefOf(a))

(* how many a elements of the page satisfy a test *)
AnchorsThat(test) ==
    Cardinality({i \in DOMAIN Anchors :
        LET a == Anchors[i]
        IN  CASE test = "internal" -> IsInternal(a)
              [] test = "external" -> IsExternal(a)
              [] test = "no_text" -> a.text.kind = "val" /\ strip(a.text.v) = <<>>
              [] test = "nofollow" -> IsSubstring(Nofollow, OrEmpty(a.rel))})

(* C15: the sub-counts are tallies over the a elements that total_links
   counts: links_without_text counts every one with an empty visible text,
   nofollow_links every one whose rel contains nofollow, internal_links those
   whose href starts with "/" or contains the page host, external_links those
   whose href starts with "http" and does not contain the page host; no link
   is both. *)
C15_LinkTallies ==
    rec.kind = "links" =>
        /\ rec.total_links = Len(Anchors)
        /\ rec.links_without_text = AnchorsThat("no_text")
        /\ rec.nofollow_links = AnchorsThat("nofollow")
        /\ rec.internal_links = AnchorsThat("internal")
        /\ rec.external_links = AnchorsThat("external")
        /\ \A i \in DOMAIN Anchors : ~(IsInternal(Anchors[i]) /\ IsExternal(Anchors[i]))

(* the dequeues the crawl can still make: the frontier entries, 30 for every
   page still in the budget, and 30 for the harvest of the page being processed *)
PopsLeft ==
    Len(to_visit) + 30 * (max_pages - Cardinality(visited))
        + (IF pc \in {"extract", "harvest"} THEN 30 ELSE 0)

(* a step that runs to_visit.pop(0) *)
Pops == pc = "loop" /\ to_visit # <<>> /\ to_visit' = Tail(to_visit)

(* how far the loop body is from the next evaluation of the loop condition,
   and the loop condition from the return *)
StepsLeft ==
    CASE pc = "report" -> 7
      [] pc = "sleep" -> 6
      [] pc = "goto" -> 5
      [] pc = "extract" -> 4
      [] pc = "harvest" -> 3
      [] pc = "loop" -> 2
      [] pc = "done" -> 1

(* C17: the loop always exits, after at most 1 + 30 * max_pages dequeues: the
   crawl starts with 1 + 30 * max_pages dequeues left; that number never falls
   below 0, no step raises it and every dequeue lowers it; a step that is not a
   dequeue moves on towards the loop condition or the return; and until the
   return there is always a step to take. *)
C17_LoopTerminates ==
    /\ [](last = "init" => PopsLeft = 1 + 30 * max_pages)
    /\ [](PopsLeft >= 0)
    /\ [][PopsLeft' <= PopsLeft]_vars
    /\ [][Pops => PopsLeft' < PopsLeft]_vars
    /\ [][pc = "loop" /\ pc' # "done" => Pops]_vars
    /\ [][~Pops => StepsLeft' < StepsLeft]_vars
    /\ [](pc # "done" =>
             ENABLED (Dequeue \/ SkipVisited \/ Return \/ Report \/ Sleep \/ GotoFail \/ GotoOk
                          \/ Extract \/ HarvestFail \/ HarvestOk))

(* the start page offered 30 links to /x, the render of the first failed, and
   the 29 others, which lead back to the URL that failed, are on the frontier *)
C17_Witness ==
    /\ last = "goto_fail"
    /\ Len(results) = 1
    /\ Len(to_visit) = 29
    /\ \A i \in DOMAIN to_visit : to_visit[i] = AbsAX /\ to_visit[i] \notin visited

(* C18: wherever the loop stands but between visited.add(url) and
   results.append(data), results has one record per visited URL; a URL is
   marked visited only by the iteration that rendered it, the next step of
   that iteration appends the record of the page it rendered at the end of
   results, nothing else changes results, and a harvest that fails changes
   neither results nor visited. *)
C18_OneRecordPerVisited ==
    /\ [](pc # "extract" => Len(results) = Cardinality(visited))
    /\ [](pc = "extract" => url \in visited /\ Len(results) + 1 = Cardinality(visited))
    /\ [][visited' # visited =>
              /\ url \notin visited
              /\ visited' = visited \cup {url}
              /\ pc' = "extract"
              /\ page_url' \in Landed(url)]_vars
    /\ [][pc = "extract" => results' = Append(results, [url |-> page_url]) /\ pc' = "harvest"]_vars
    /\ [][results' # results => pc = "extract"]_vars
    /\ [][pc = "harvest" => results' = results /\ visited' = visited]_vars

(* the harvest of the second page failed; both records and both URLs are kept *)
C18_Witness ==
    /\ last = "harvest_fail"
    /\ pc = "loop"
    /\ Len(results) = 2
    /\ Cardinality(visited) = 2

====
